---------------------------- MODULE Spec2Model ----------------------------
(***************************************************************************)
(* The two Singleton implementations of creational/singleton:              *)
(*   singleton.py       class Singleton, guard in __new__ / __init__       *)
(*   singleton_meta.py  metaclass SingletonMeta, cache keyed by class      *)
(* Objects are heap cells named by their index (identity = index).  A call *)
(* K(args) is modelled as Python runs it: type.__call__ runs K.__new__,   *)
(* and runs __init__ on the result only if it is an instance of K.         *)
(***************************************************************************)
EXTENDS Integers, Sequences, FiniteSets, TLC

\* ---------------------------------------------------------------- bounds
MaxCalls == 6        \* acquisitions made in one run
MaxArgs == 2         \* a call passes 0..MaxArgs extra constructor arguments
NumCallers == 2      \* concurrent callers of SpecConc

\* ------------------------------------------------------------- constants
None == 0            \* Python None (object identities are 1, 2, ...)
Absent == -1         \* the class has no own `_instance` attribute
Unset == "Unset"     \* the attribute was never assigned on the object
InitialSomeData == "Important data"
InitialData == "Some important shared data"

PTypes == {"Singleton", "SubSingleton"}
MTypes == {"MySingleton", "SubMySingleton"}
DataValues == {"v1", "v2", "v3"}
ArgCounts == 0..MaxArgs
Callers == 1..NumCallers

VARIABLES
  _instance,    \* per class: its own `_instance` attribute (Singleton._instance)
  heapP,        \* objects built by Singleton.__new__: cls, _initialized (hasFlag: it is set), some_data
  outP,         \* lines printed by the last operation of singleton.py
  lastP,        \* what the caller saw of the last operation of singleton.py
  retsP,        \* per class: the objects its calls have returned so far
  initRunsP,    \* per class: executions of the guarded body of __init__
  callsP,       \* calls made so far on classes of singleton.py
  _instances,   \* SingletonMeta._instances, a dict keyed by class
  heapM,        \* objects built through SingletonMeta.__call__: cls, data
  outM, lastM, retsM, initRunsM, callsM,
  variant,      \* which program runs: singleton.py, singleton_meta.py, or both side by side
  pc,           \* per concurrent caller: the statement it executes next
  tmp,          \* per caller: the object it built and has not stored yet
  tret,         \* per caller: the object its call returned
  sawEmpty      \* per caller: its presence check ran while nothing was recorded

pvars == <<_instance, heapP, outP, lastP, retsP, initRunsP, callsP>>
mvars == <<_instances, heapM, outM, lastM, retsM, initRunsM, callsM>>
cvars == <<variant, pc, tmp, tret, sawEmpty>>
vars == <<pvars, mvars, cvars>>

\* ---------------------------------------------------------- class model
\* class SubSingleton(Singleton) / class SubMySingleton(MySingleton)
Base(cls) ==
  IF cls = "SubSingleton" THEN "Singleton"
  ELSE IF cls = "SubMySingleton" THEN "MySingleton"
  ELSE "object"

\* isinstance(obj, cls) for an object whose class is objcls
IsInstance(objcls, cls) == objcls = cls \/ Base(objcls) = cls

\* `cls._instance`: the class's own attribute, else the base class's
ClassAttr(store, cls) ==
  IF store[cls] # Absent THEN store[cls] ELSE store[Base(cls)]

\* def __init__(self): any extra argument is a TypeError at the call
InitAccepts(nargs) == nargs = 0

NoObs == [op |-> "none", cls |-> "none", nargs |-> 0, outcome |-> "none",
          obj |-> None, before |-> None]

\* ------------------------------------------------------- singleton.py
\* `if cls._instance is None:`
NeedsCreate_always(store, cls) == TRUE
NeedsCreate(store, cls) == ClassAttr(store, cls) = None

\* `if not self._initialized:`
InitGuard_always(o) == TRUE
InitGuard(o) == ~o._initialized

\* Singleton.__new__(cls, *args, **kwargs): the store and heap after it
NewStore(cls) ==
  IF NeedsCreate(_instance, cls)
  THEN [_instance EXCEPT ![cls] = Len(heapP) + 1]
  ELSE _instance

NewHeap(cls) ==
  IF NeedsCreate(_instance, cls)
  THEN Append(heapP, [cls |-> cls, hasFlag |-> TRUE, _initialized |-> FALSE,
                      some_data |-> Unset])
  ELSE heapP

\* The call cls(args) with nargs extra arguments, on the state of singleton.py
SingletonCall(cls, nargs) ==
  /\ callsP < MaxCalls
  /\ LET created == NeedsCreate(_instance, cls)
         store1 == NewStore(cls)
         heap1 == NewHeap(cls)
         obj == ClassAttr(store1, cls)                     \* return cls._instance
         runsInit == IsInstance(heap1[obj].cls, cls)       \* type.__call__
         raises == runsInit /\ ~InitAccepts(nargs)
         body == runsInit /\ ~raises /\ InitGuard(heap1[obj])
         heap2 == IF body
                  THEN [heap1 EXCEPT ![obj] =
                          [@ EXCEPT !.some_data = InitialSomeData,
                                    !._initialized = TRUE]]
                  ELSE heap1
     IN /\ _instance' = store1
        /\ heapP' = heap2
        /\ outP' = (IF created
                    THEN <<"Creating the Singleton instance (only once)...">>
                    ELSE <<>>)
                   \o (IF body
                       THEN <<"Initializing the Singleton instance (only once)...">>
                       ELSE <<>>)
        /\ lastP' = [op |-> "acquire", cls |-> cls, nargs |-> nargs,
                     outcome |-> IF raises THEN "TypeError" ELSE "ok",
                     obj |-> IF raises THEN None ELSE obj,
                     before |-> ClassAttr(_instance, cls)]
        /\ retsP' = IF raises THEN retsP
                    ELSE [retsP EXCEPT ![cls] = @ \cup {obj}]
        /\ initRunsP' = IF body
                        THEN [initRunsP EXCEPT ![heap1[obj].cls] = @ + 1]
                        ELSE initRunsP
        /\ callsP' = callsP + 1

HeldP == UNION {retsP[k] : k \in PTypes}

\* the caller assigns `s.some_data = v` on an instance it holds
SetSomeData(o, v) ==
  /\ o \in HeldP
  /\ heapP' = [heapP EXCEPT ![o].some_data = v]
  /\ outP' = <<>>
  /\ lastP' = [NoObs EXCEPT !.op = "set", !.cls = heapP[o].cls,
                            !.outcome = "ok", !.obj = o]
  /\ UNCHANGED <<_instance, retsP, initRunsP, callsP>>

\* s.some_business_logic()
some_business_logic(o) ==
  /\ o \in HeldP
  /\ outP' = <<"Doing something important...">>
  /\ lastP' = [NoObs EXCEPT !.op = "some_business_logic", !.cls = heapP[o].cls,
                            !.outcome = "ok", !.obj = o]
  /\ UNCHANGED <<_instance, heapP, retsP, initRunsP, callsP>>

\* --------------------------------------------------- singleton_meta.py
\* the key of `cls._instances[cls]`
MetaKey_root(cls) == "MySingleton"
MetaKey(cls) == cls

\* `if cls not in cls._instances:`
KeyAbsent_always(store, cls) == TRUE
KeyAbsent(store, cls) == MetaKey(cls) \notin DOMAIN store

\* `cls._instances[cls] = obj`
Put(store, cls, obj) ==
  [k \in DOMAIN store \cup {MetaKey(cls)} |->
     IF k = MetaKey(cls) THEN obj ELSE store[k]]

\* The call cls(args) of a class whose metaclass is SingletonMeta
MetaCall(cls, nargs) ==
  /\ callsM < MaxCalls
  /\ LET absent == KeyAbsent(_instances, cls)
         \* super().__call__(args, kwargs): object.__new__, then __init__
         raises == absent /\ ~InitAccepts(nargs)
         stores == absent /\ ~raises
         id == Len(heapM) + 1
         store1 == IF stores THEN Put(_instances, cls, id) ELSE _instances
     IN /\ _instances' = store1
        /\ heapM' = IF stores
                    THEN Append(heapM, [cls |-> cls, data |-> InitialData])
                    ELSE heapM
        /\ outM' = IF absent
                   THEN <<"[SingletonMeta] Creating new instance of", cls>>
                        \o (IF raises THEN <<>> ELSE <<"MySingleton __init__ called">>)
                   ELSE <<"[SingletonMeta] Reusing existing instance of", cls>>
        /\ lastM' = [op |-> "acquire", cls |-> cls, nargs |-> nargs,
                     outcome |-> IF raises THEN "TypeError" ELSE "ok",
                     obj |-> IF raises THEN None ELSE store1[MetaKey(cls)],
                     before |-> IF MetaKey(cls) \in DOMAIN _instances
                                THEN _instances[MetaKey(cls)] ELSE None]
        /\ retsM' = IF raises THEN retsM
                    ELSE [retsM EXCEPT ![cls] = @ \cup {store1[MetaKey(cls)]}]
        /\ initRunsM' = IF stores THEN [initRunsM EXCEPT ![cls] = @ + 1]
                        ELSE initRunsM
        /\ callsM' = callsM + 1

HeldM == UNION {retsM[k] : k \in MTypes}

\* the caller assigns `s.data = v` on an instance it holds
SetData(o, v) ==
  /\ o \in HeldM
  /\ heapM' = [heapM EXCEPT ![o].data = v]
  /\ outM' = <<>>
  /\ lastM' = [NoObs EXCEPT !.op = "set", !.cls = heapM[o].cls,
                            !.outcome = "ok", !.obj = o]
  /\ UNCHANGED <<_instances, retsM, initRunsM, callsM>>

\* s.do_something()
do_something(o) ==
  /\ o \in HeldM
  /\ outM' = <<"Doing something with", heapM[o].data>>
  /\ lastM' = [NoObs EXCEPT !.op = "do_something", !.cls = heapM[o].cls,
                            !.outcome = "ok", !.obj = o]
  /\ UNCHANGED <<_instances, heapM, retsM, initRunsM, callsM>>

\* ------------------------------------------------ sequential behaviour
InitP ==
  /\ _instance = [k \in PTypes |-> IF k = "Singleton" THEN None ELSE Absent]
  /\ heapP = <<>>
  /\ outP = <<>>
  /\ lastP = NoObs
  /\ retsP = [k \in PTypes |-> {}]
  /\ initRunsP = [k \in PTypes |-> 0]
  /\ callsP = 0

InitM ==
  /\ _instances = [k \in {} |-> None]
  /\ heapM = <<>>
  /\ outM = <<>>
  /\ lastM = NoObs
  /\ retsM = [k \in MTypes |-> {}]
  /\ initRunsM = [k \in MTypes |-> 0]
  /\ callsM = 0

InitC ==
  /\ pc = [t \in Callers |-> "idle"]
  /\ tmp = [t \in Callers |-> None]
  /\ tret = [t \in Callers |-> None]
  /\ sawEmpty = [t \in Callers |-> FALSE]


Variants == {"singleton", "singleton_meta"}

Init == InitP /\ InitM /\ InitC /\ variant \in Variants

AcquireP == variant = "singleton" /\ \E cls \in PTypes, n \in ArgCounts :
              SingletonCall(cls, n) /\ UNCHANGED <<mvars, cvars>>
MutateP == variant = "singleton" /\ \E o \in HeldP, v \in DataValues :
              SetSomeData(o, v) /\ UNCHANGED <<mvars, cvars>>
BusinessP == variant = "singleton" /\ \E o \in HeldP :
              some_business_logic(o) /\ UNCHANGED <<mvars, cvars>>
AcquireM == variant = "singleton_meta" /\ \E cls \in MTypes, n \in ArgCounts :
              MetaCall(cls, n) /\ UNCHANGED <<pvars, cvars>>
MutateM == variant = "singleton_meta" /\ \E o \in HeldM, v \in DataValues :
              SetData(o, v) /\ UNCHANGED <<pvars, cvars>>
BusinessM == variant = "singleton_meta" /\ \E o \in HeldM :
              do_something(o) /\ UNCHANGED <<pvars, cvars>>

Next == AcquireP \/ MutateP \/ BusinessP \/ AcquireM \/ MutateM \/ BusinessM

Spec == Init /\ [][Next]_vars

\* ------------------------------------------- two concurrent callers
\* Each caller makes one call, Singleton() or MySingleton(), statement by
\* statement; a thread switch may fall between any two statements.
At(t, v, label) == variant = v /\ pc[t] = label
Goto(t, label) == pc' = [pc EXCEPT ![t] = label]

\* singleton.py:5  if cls._instance is None:
PCheck(t) ==
  /\ At(t, "singleton", "idle")
  /\ sawEmpty' = [sawEmpty EXCEPT ![t] = (_instance["Singleton"] = None)]
  /\ Goto(t, IF NeedsCreate(_instance, "Singleton") THEN "p_new" ELSE "p_ret")
  /\ UNCHANGED <<pvars, mvars, variant, tmp, tret>>

\* singleton.py:6-7  print(...); super().__new__(cls)
PNew(t) ==
  /\ At(t, "singleton", "p_new")
  /\ heapP' = Append(heapP, [cls |-> "Singleton", hasFlag |-> FALSE,
                             _initialized |-> FALSE, some_data |-> Unset])
  /\ tmp' = [tmp EXCEPT ![t] = Len(heapP) + 1]
  /\ outP' = <<"Creating the Singleton instance (only once)...">>
  /\ Goto(t, "p_store")
  /\ UNCHANGED <<_instance, lastP, retsP, initRunsP, callsP, mvars, variant,
                 tret, sawEmpty>>

\* singleton.py:7  cls._instance = <the new object>
PStore(t) ==
  /\ At(t, "singleton", "p_store")
  /\ _instance' = [_instance EXCEPT !["Singleton"] = tmp[t]]
  /\ Goto(t, "p_flag")
  /\ UNCHANGED <<heapP, outP, lastP, retsP, initRunsP, callsP, mvars, variant,
                 tmp, tret, sawEmpty>>

\* singleton.py:8  cls._instance._initialized = False
PFlag(t) ==
  /\ At(t, "singleton", "p_flag")
  /\ heapP' = [heapP EXCEPT ![_instance["Singleton"]] =
                 [@ EXCEPT !.hasFlag = TRUE, !._initialized = FALSE]]
  /\ Goto(t, "p_ret")
  /\ UNCHANGED <<_instance, outP, lastP, retsP, initRunsP, callsP, mvars,
                 variant, tmp, tret, sawEmpty>>

\* singleton.py:9  return cls._instance
PRet(t) ==
  /\ At(t, "singleton", "p_ret")
  /\ tret' = [tret EXCEPT ![t] = _instance["Singleton"]]
  /\ Goto(t, "p_init")
  /\ UNCHANGED <<pvars, mvars, variant, tmp, sawEmpty>>

\* singleton.py:12  if not self._initialized:   (AttributeError if never set)
PInitCheck(t) ==
  /\ At(t, "singleton", "p_init")
  /\ Goto(t, IF ~heapP[tret[t]].hasFlag THEN "AttributeError"
             ELSE IF InitGuard(heapP[tret[t]]) THEN "p_data" ELSE "done")
  /\ retsP' = IF heapP[tret[t]].hasFlag /\ ~InitGuard(heapP[tret[t]])
              THEN [retsP EXCEPT !["Singleton"] = @ \cup {tret[t]}] ELSE retsP
  /\ UNCHANGED <<_instance, heapP, outP, lastP, initRunsP, callsP, mvars,
                 variant, tmp, tret, sawEmpty>>

\* singleton.py:13-15  print(...); self.some_data = "Important data"
PSetData(t) ==
  /\ At(t, "singleton", "p_data")
  /\ heapP' = [heapP EXCEPT ![tret[t]].some_data = InitialSomeData]
  /\ outP' = <<"Initializing the Singleton instance (only once)...">>
  /\ initRunsP' = [initRunsP EXCEPT !["Singleton"] = @ + 1]
  /\ Goto(t, "p_done")
  /\ UNCHANGED <<_instance, lastP, retsP, callsP, mvars, variant, tmp, tret,
                 sawEmpty>>

\* singleton.py:16  self._initialized = True
PSetFlag(t) ==
  /\ At(t, "singleton", "p_done")
  /\ heapP' = [heapP EXCEPT ![tret[t]] =
                 [@ EXCEPT !.hasFlag = TRUE, !._initialized = TRUE]]
  /\ retsP' = [retsP EXCEPT !["Singleton"] = @ \cup {tret[t]}]
  /\ Goto(t, "done")
  /\ UNCHANGED <<_instance, outP, lastP, initRunsP, callsP, mvars, variant,
                 tmp, tret, sawEmpty>>

\* singleton_meta.py:9  if cls not in cls._instances:
MCheck(t) ==
  /\ At(t, "singleton_meta", "idle")
  /\ sawEmpty' = [sawEmpty EXCEPT ![t] = ("MySingleton" \notin DOMAIN _instances)]
  /\ Goto(t, IF KeyAbsent(_instances, "MySingleton") THEN "m_call" ELSE "m_reuse")
  /\ UNCHANGED <<pvars, mvars, variant, tmp, tret>>

\* singleton_meta.py:10-11  print(...); super().__call__(): the new object, initialised
MConstruct(t) ==
  /\ At(t, "singleton_meta", "m_call")
  /\ heapM' = Append(heapM, [cls |-> "MySingleton", data |-> InitialData])
  /\ tmp' = [tmp EXCEPT ![t] = Len(heapM) + 1]
  /\ initRunsM' = [initRunsM EXCEPT !["MySingleton"] = @ + 1]
  /\ outM' = <<"[SingletonMeta] Creating new instance of", "MySingleton",
               "MySingleton __init__ called">>
  /\ Goto(t, "m_store")
  /\ UNCHANGED <<_instances, lastM, retsM, callsM, pvars, variant, tret, sawEmpty>>

\* singleton_meta.py:11  cls._instances[cls] = <the new object>
MStore(t) ==
  /\ At(t, "singleton_meta", "m_store")
  /\ _instances' = Put(_instances, "MySingleton", tmp[t])
  /\ Goto(t, "m_ret")
  /\ UNCHANGED <<heapM, outM, lastM, retsM, initRunsM, callsM, pvars, variant,
                 tmp, tret, sawEmpty>>

\* singleton_meta.py:13  print("... Reusing existing instance ...")
MReuse(t) ==
  /\ At(t, "singleton_meta", "m_reuse")
  /\ outM' = <<"[SingletonMeta] Reusing existing instance of", "MySingleton">>
  /\ Goto(t, "m_ret")
  /\ UNCHANGED <<_instances, heapM, lastM, retsM, initRunsM, callsM, pvars,
                 variant, tmp, tret, sawEmpty>>

\* singleton_meta.py:14  return cls._instances[cls]
MRet(t) ==
  /\ At(t, "singleton_meta", "m_ret")
  /\ tret' = [tret EXCEPT ![t] = _instances[MetaKey("MySingleton")]]
  /\ retsM' = [retsM EXCEPT !["MySingleton"] = @ \cup {_instances[MetaKey("MySingleton")]}]
  /\ Goto(t, "done")
  /\ UNCHANGED <<_instances, heapM, outM, lastM, initRunsM, callsM, pvars,
                 variant, tmp, sawEmpty>>

StepP == \E t \in Callers :
           \/ PCheck(t) \/ PNew(t) \/ PStore(t) \/ PFlag(t) \/ PRet(t)
           \/ PInitCheck(t) \/ PSetData(t) \/ PSetFlag(t)
StepM == \E t \in Callers :
           \/ MCheck(t) \/ MConstruct(t) \/ MStore(t) \/ MReuse(t) \/ MRet(t)

NextConc == StepP \/ StepM
SpecConc == Init /\ [][NextConc]_vars

\* ------------------------------------- both programs, side by side
\* The same caller operation applied to singleton.py and to singleton_meta.py
\* (one type of each: Singleton and MySingleton)
AcquireBoth == variant = "both" /\ \E n \in ArgCounts :
                 SingletonCall("Singleton", n) /\ MetaCall("MySingleton", n)
                   /\ UNCHANGED cvars
MutateBoth == variant = "both" /\ \E o \in HeldP, q \in HeldM, v \in DataValues :
                 SetSomeData(o, v) /\ SetData(q, v) /\ UNCHANGED cvars
BusinessBoth == variant = "both" /\ \E o \in HeldP, q \in HeldM :
                 some_business_logic(o) /\ do_something(q) /\ UNCHANGED cvars

InitEq == InitP /\ InitM /\ InitC /\ variant = "both"
NextEq == AcquireBoth \/ MutateBoth \/ BusinessBoth
SpecEq == InitEq /\ [][NextEq]_vars

\* What the caller can tell after an operation: whether it raised, whether the
\* object it got is the one the type returned before, how often initialization
\* ran, and the data it reads (the two initial texts count as the same value).
ObsP ==
  [outcome |-> lastP.outcome,
   same |-> (lastP.outcome = "ok" => retsP[lastP.cls] = {lastP.obj}),
   inits |-> initRunsP["Singleton"],
   data |-> IF lastP.outcome # "ok" THEN "-"
            ELSE IF heapP[lastP.obj].some_data = InitialSomeData THEN "initial"
            ELSE heapP[lastP.obj].some_data]

ObsM ==
  [outcome |-> lastM.outcome,
   same |-> (lastM.outcome = "ok" => retsM[lastM.cls] = {lastM.obj}),
   inits |-> initRunsM["MySingleton"],
   data |-> IF lastM.outcome # "ok" THEN "-"
            ELSE IF heapM[lastM.obj].data = InitialData THEN "initial"
            ELSE heapM[lastM.obj].data]

\* C8: after the same sequence of caller operations the two variants show the
\* caller the same thing.
C8_Equivalent == ObsP = ObsM

\* ------------------------------------------------------------- claims
ReacquiredP == lastP.op = "acquire" /\ lastP.outcome = "ok" /\ lastP.before # None
ReacquiredM == lastM.op = "acquire" /\ lastM.outcome = "ok" /\ lastM.before # None

\* C1: every acquisition of a type returns the object its first acquisition
\* returned: no type has ever returned two different objects, and a call made
\* when an instance is recorded returns that recorded instance.
C1_SameObject ==
  /\ \A k \in PTypes : Cardinality(retsP[k]) <= 1
  /\ \A k \in MTypes : Cardinality(retsM[k]) <= 1
  /\ ReacquiredP => lastP.obj = lastP.before
  /\ ReacquiredM => lastM.obj = lastM.before

C1_Witness ==
  /\ ReacquiredP /\ lastP.cls = "Singleton" /\ callsP >= 3
  /\ retsP["Singleton"] = {lastP.obj}

\* C2: under SingletonMeta two distinct classes (a class and its subclass
\* included) never return the same object, and each class that has been
\* acquired had __init__ run exactly once, on an instance of that very class.
C2_DistinctPerType ==
  /\ \A k1, k2 \in MTypes : k1 # k2 => retsM[k1] \cap retsM[k2] = {}
  /\ \A k \in MTypes : retsM[k] # {} =>
        /\ initRunsM[k] = 1
        /\ \A o \in retsM[k] : heapM[o].cls = k /\ heapM[o].data # Unset

C2_Witness ==
  /\ retsM["MySingleton"] # {} /\ retsM["SubMySingleton"] # {}
  /\ callsM >= 4

\* C3: in singleton.py the instance acquired for a subclass of Singleton is
\* never the instance acquired for Singleton.
C3_NeverShared == retsP["Singleton"] \cap retsP["SubSingleton"] = {}

\* C4: however many calls are made, the guarded body of Singleton.__init__
\* runs exactly once once Singleton() has returned, and MySingleton.__init__
\* runs exactly once once MySingleton() has returned; neither runs twice.
C4_InitOnce ==
  /\ initRunsP["Singleton"] <= 1 /\ initRunsM["MySingleton"] <= 1
  /\ retsP["Singleton"] # {} => initRunsP["Singleton"] = 1
  /\ retsM["MySingleton"] # {} => initRunsM["MySingleton"] = 1

C4_Witness ==
  /\ ReacquiredP /\ lastP.cls = "Singleton" /\ lastP.nargs = 0
  /\ heapP[lastP.obj]._initialized /\ callsP >= 2
  /\ initRunsP["Singleton"] = 1

\* C5: a call made while an instance is recorded for the type, whatever its
\* arguments, does not raise and returns the recorded instance.
C5_ArgsIgnored ==
  /\ (lastP.op = "acquire" /\ lastP.before # None) =>
        (lastP.outcome = "ok" /\ lastP.obj = lastP.before)
  /\ (lastM.op = "acquire" /\ lastM.before # None) =>
        (lastM.outcome = "ok" /\ lastM.obj = lastM.before)

\* C6: the store is write-once: an entry that is set (Singleton._instance, a
\* subclass's own or inherited _instance, a key of SingletonMeta._instances)
\* is the same object after every step.
C6_WriteOnce ==
  [][ /\ \A k \in PTypes :
           /\ _instance[k] \notin {None, Absent} => _instance'[k] = _instance[k]
           /\ ClassAttr(_instance, k) # None =>
                 ClassAttr(_instance', k) = ClassAttr(_instance, k)
      /\ \A k \in DOMAIN _instances :
           k \in DOMAIN _instances' /\ _instances'[k] = _instances[k] ]_vars

C6_Witness ==
  /\ lastM.op = "do_something" /\ callsM >= 3
  /\ DOMAIN _instances = MTypes
  /\ heapM[_instances["MySingleton"]].data \in DataValues

C9_FailedLeavesNothing ==
  /\ (lastP.op = "acquire" /\ lastP.outcome = "TypeError" /\ lastP.before = None)
        => ClassAttr(_instance, lastP.cls) = None
  /\ (lastM.op = "acquire" /\ lastM.outcome = "TypeError" /\ lastM.before = None)
        => lastM.cls \notin DOMAIN _instances

\* C10 (as stated): callers acquiring the same type concurrently build at
\* most one instance, and the callers that got an object got the same one.
Returned == {t \in Callers : pc[t] = "done"}
Built == Len(heapP) + Len(heapM)
C10_AtMostOne ==
  /\ Built <= 1
  /\ \A t1, t2 \in Returned : tret[t1] = tret[t2]

\* C10 (amended): at most one instance is built per caller whose presence check
\* found nothing recorded; when at most one caller's check found nothing
\* recorded, one instance is built and all callers that got an object got it.
Checkers == {t \in Callers : sawEmpty[t]}
C10_OnePerEmptyCheck ==
  /\ Built <= Cardinality(Checkers)
  /\ Cardinality(Checkers) <= 1 =>
        \A t1, t2 \in Returned : tret[t1] = tret[t2]

C10_Witness ==
  /\ Returned = Callers
  /\ Cardinality(Checkers) = 1 /\ Built = 1
  /\ \A t \in Callers : tret[t] = 1

=============================================================================
